---- MODULE Spec2Model ----
(***************************************************************************)
(* Model of src/utils/heatmap.js of svelte-heatmap: getDay, getColor,      *)
(* getCalendar, chunkWeeks and chunkMonths, with the date collaborators of *)
(* src/utils/date.js (normalizeDate, getWeekStart, getWeekEnd,             *)
(* getMonthStart, getMonthEnd) modelled from their documented contract.    *)
(*                                                                         *)
(* A Date is its time value: a count of hours since 1970-01-01T00:00 local *)
(* time (the source counts milliseconds; hours keep the values inside      *)
(* TLC's 32-bit integers, and every time of day the model uses is a whole  *)
(* hour).  The local time zone has a fixed offset (no daylight saving).    *)
(***************************************************************************)
EXTENDS Integers, Sequences, FiniteSets, TLC

(***************************************************************************)
(* Bounds of the model.                                                    *)
(***************************************************************************)
\* date-like inputs are FirstDay + Stride*k for k in 0..MaxK
MaxK == 6
\* observation lists have at most MaxObs entries
MaxObs == 2
\* colour scales have at most MaxColors entries
MaxColors == 4
\* values and maxima handed to getColor range over 0..MaxValue
MaxValue == 6

(***************************************************************************)
(* The Date object of the language: calendar fields of a time value.       *)
(***************************************************************************)
\* length of a day in units of the time value (86400000 ms in the source)
DayLength == 24

\* day number (days since 1970-01-01) of the proleptic Gregorian date
\* y-m-d, m in 1..12; d may lie outside the month (it is an offset from
\* the first of the month, as in the language's MakeDay)
DaysFromCivil(y, m, d) ==
    LET yy  == IF m <= 2 THEN y - 1 ELSE y
        era == yy \div 400
        yoe == yy - era * 400
        mp  == IF m > 2 THEN m - 3 ELSE m + 9
        doy == (153 * mp + 2) \div 5 + d - 1
        doe == yoe * 365 + yoe \div 4 - yoe \div 100 + doy
    IN  era * 146097 + doe - 719468

\* the Gregorian date <<year, month (1..12), day of month>> of a day number
CivilFromDays(z) ==
    LET zz  == z + 719468
        era == zz \div 146097
        doe == zz - era * 146097
        yoe == (doe - doe \div 1460 + doe \div 36524 - doe \div 146096) \div 365
        doy == doe - (365 * yoe + yoe \div 4 - yoe \div 100)
        mp  == (5 * doy + 2) \div 153
        d   == doy - (153 * mp + 2) \div 5 + 1
        m   == IF mp < 10 THEN mp + 3 ELSE mp - 9
    IN  << IF m <= 2 THEN yoe + era * 400 + 1 ELSE yoe + era * 400, m, d >>

DayOf(t)      == t \div DayLength
TimeInDay(t)  == t % DayLength
\* Date.prototype.getFullYear / getMonth (0..11) / getDate / getDay (0 = Sunday)
GetFullYear(t) == CivilFromDays(DayOf(t))[1]
GetMonth(t)    == CivilFromDays(DayOf(t))[2] - 1
GetDate(t)     == CivilFromDays(DayOf(t))[3]
GetWeekday(t)  == (DayOf(t) + 4) % 7
\* new Date(year, monthIndex, day): local midnight, out-of-range day carried over
NewDate(y, mi, d) == DaysFromCivil(y, mi + 1, d) * DayLength
\* Date.prototype.setDate(n): same year, month and time of day, day of month n
\* (n beyond the month's length carries into the following months)
SetDate(t, n) ==
    LET c == CivilFromDays(DayOf(t))
    IN  DaysFromCivil(c[1], c[2], n) * DayLength + TimeInDay(t)

(***************************************************************************)
(* Date-like inputs and the collaborators of src/utils/date.js.            *)
(* A date-like input is absent (undefined), unparseable, or a moment.      *)
(***************************************************************************)
Absent      == [kind |-> "absent", t |-> 0]
Unparseable == [kind |-> "unparseable", t |-> 0]
Moment(t)   == [kind |-> "date", t |-> t]
\* outcome of normalizeDate on an unparseable input
Raised      == [kind |-> "raised", t |-> 0]

\* truthiness of a date-like value: only the absent one is falsy
Falsy(x) == x.kind = "absent"

\* normalizeDate: collapse a date-like input to day granularity; raise on
\* an unparseable input; an absent input stays absent
normalizeDate(x) ==
    CASE x.kind = "date"        -> Moment(DayOf(x.t) * DayLength)
      [] x.kind = "unparseable" -> Raised
      [] OTHER                  -> x

\* first / last day of the calendar week (Sunday first) and of the calendar
\* month containing the Date t, at local midnight
getWeekStart(t)  == NewDate(GetFullYear(t), GetMonth(t), GetDate(t) - GetWeekday(t))
getWeekEnd(t)    == NewDate(GetFullYear(t), GetMonth(t), GetDate(t) + (6 - GetWeekday(t)))
getMonthStart(t) == NewDate(GetFullYear(t), GetMonth(t), 1)
getMonthEnd(t)   == NewDate(GetFullYear(t), GetMonth(t) + 1, 0)

(***************************************************************************)
(* getDay: the date at startDate + offset days and the sum of the values   *)
(* of the observations that fall on it.                                    *)
(***************************************************************************)
\* the test of the reducer callback: datapoint >= date && datapoint < nextDate
\* (faulty variant: the upper bound taken inclusive)
InDayInclusive(datapoint, date, nextDate) == datapoint >= date /\ datapoint <= nextDate
\* (as written)
InDay(datapoint, date, nextDate) == datapoint >= date /\ datapoint < nextDate

RECURSIVE SumFrom(_, _, _, _, _)
\* data.reduce(..., 0) from index i with accumulator acc
SumFrom(data, i, acc, date, nextDate) ==
    IF i > Len(data) THEN acc
    ELSE LET datapoint == normalizeDate(data[i].date).t
         IN  SumFrom(data, i + 1,
                     IF InDay(datapoint, date, nextDate) THEN acc + data[i].value ELSE acc,
                     date, nextDate)

\* the date of the day at the given offset: a copy of startDate with
\* setDate(startDayOfMonth + offset)
DayDate(startDate, startDayOfMonth, offset) == SetDate(startDate, startDayOfMonth + offset)

getDay(data, offset, startDate, startDayOfMonth) ==
    LET date     == DayDate(startDate, startDayOfMonth, offset)
        nextDate == SetDate(date, GetDate(date) + 1)
    IN  [date |-> date, value |-> SumFrom(data, 1, 0, date, nextDate)]

(***************************************************************************)
(* getColor: the bucket colour of a value relative to max, or null.        *)
(***************************************************************************)
Null == "null"

\* intencity < i / colors.length, with intencity = value / max in exact
\* arithmetic; value / 0 is +Infinity for value > 0 and -Infinity for value < 0
\* (faulty variant: <= in place of <)
BelowOrEqual(value, max, i, n) ==
    IF max > 0 THEN value * n <= i * max
    ELSE IF max < 0 THEN value * n >= i * max
    ELSE value < 0
\* (as written)
Below(value, max, i, n) ==
    IF max > 0 THEN value * n < i * max
    ELSE IF max < 0 THEN value * n > i * max
    ELSE value < 0

RECURSIVE ColorLoop(_, _, _, _, _)
\* the for loop from index i (0-based) with the running colour `color`
ColorLoop(colors, max, value, i, color) ==
    IF i >= Len(colors) THEN colors[Len(colors)]
    ELSE IF Below(value, max, i, Len(colors)) THEN color
    ELSE ColorLoop(colors, max, value, i + 1, colors[i + 1])

getColor(colors, max, value) ==
    IF Len(colors) # 0 /\ value # 0
    THEN ColorLoop(colors, max, value, 1, colors[1])
    ELSE Null

(***************************************************************************)
(* getCalendar.  `now` is the value of new Date() at the call.  The result *)
(* is [status, days]: status "ok" with the returned array, or the          *)
(* exception that left the function.                                       *)
(***************************************************************************)
\* startDate ? normalizeDate(startDate) : new Date()
OrNow(x, now) == IF Falsy(x) THEN Moment(now) ELSE normalizeDate(x)

\* the if (view === 'monthly') ... else ... that widens the range
\* (faulty variant: the test made on 'weekly', so other views fall to months)
ResolveRangeOtherIsMonthly(view, s, e) ==
    IF view = "weekly"
    THEN [startDate |-> getWeekStart(s), endDate |-> getWeekEnd(e)]
    ELSE [startDate |-> getMonthStart(s), endDate |-> getMonthEnd(e)]
\* (as written)
ResolveRange(view, s, e) ==
    IF view = "monthly"
    THEN [startDate |-> getMonthStart(s), endDate |-> getMonthEnd(e)]
    ELSE [startDate |-> getWeekStart(s), endDate |-> getWeekEnd(e)]

\* Math.floor((endDate - startDate) / 86400000) + 1
\* (faulty variant: the + 1 forgotten)
TotalDaysNoPlusOne(startDate, endDate) == (endDate - startDate) \div DayLength
\* (as written)
TotalDays(startDate, endDate) == ((endDate - startDate) \div DayLength) + 1

\* the first .map(): one getDay per offset 0..totalDays-1
Aggregated(data, startDate, totalDays) ==
    LET startDayOfMonth == GetDate(startDate)
    IN  [i \in 1..totalDays |-> getDay(data, i - 1, startDate, startDayOfMonth)]

\* the variable max after the first .map() has visited the first k days:
\* it starts at 0 and is raised to every larger day.value it meets
MaxAfter(days, k) ==
    LET seen == {0} \cup { days[i].value : i \in 1..k }
    IN  CHOOSE m \in seen : \A v \in seen : m >= v

\* getColor(...) || emptyColor
OrEmpty(color, emptyColor) == IF color = Null THEN emptyColor ELSE color

\* the second .map(): it runs after the first has finished, so every day is
\* coloured against the final max
\* (faulty variant: colouring inside the first pass, against the running max)
ColoredRunningMax(colors, emptyColor, days) ==
    [i \in 1..Len(days) |->
        [color |-> OrEmpty(getColor(colors, MaxAfter(days, i), days[i].value), emptyColor),
         date  |-> days[i].date,
         value |-> days[i].value]]
\* (as written)
Colored(colors, emptyColor, days) ==
    LET max == MaxAfter(days, Len(days))
    IN  [i \in 1..Len(days) |->
            [color |-> OrEmpty(getColor(colors, max, days[i].value), emptyColor),
             date  |-> days[i].date,
             value |-> days[i].value]]

getCalendar(colors, data, emptyColor, endDate, startDate, view, now) ==
    LET s == OrNow(startDate, now)
        e == OrNow(endDate, now)
    IN  IF s.kind = "raised" \/ e.kind = "raised"
        THEN [status |-> "InvalidDate", days |-> << >>]
        ELSE LET r         == ResolveRange(view, s.t, e.t)
                 totalDays == TotalDays(r.startDate, r.endDate)
             IN  IF totalDays < 0
                 \* new Array(totalDays) throws RangeError: Invalid array length
                 THEN [status |-> "RangeError", days |-> << >>]
                 ELSE [status |-> "ok",
                       days   |-> Colored(colors, emptyColor,
                                          Aggregated(data, r.startDate, totalDays))]

(***************************************************************************)
(* chunkWeeks and chunkMonths.                                             *)
(***************************************************************************)
\* the condition under which a day is pushed onto the current row
\* (faulty variant: the end bound taken exclusive)
IncludedEndExclusive(allowOverflow, date, startDate, endDate) ==
    allowOverflow \/ (   (Falsy(startDate) \/ date >= startDate.t)
                      /\ (Falsy(endDate) \/ date < endDate.t))
\* (as written)
Included(allowOverflow, date, startDate, endDate) ==
    allowOverflow \/ (   (Falsy(startDate) \/ date >= startDate.t)
                      /\ (Falsy(endDate) \/ date <= endDate.t))

\* acc[acc.length - 1].push(day)
PushLast(acc, day) == [acc EXCEPT ![Len(acc)] = Append(@, day)]

\* .filter(row => row.length)
\* (faulty variant: the filter left out)
KeepEmptyRows(acc) == acc
\* (as written)
DropEmptyRows(acc) == SelectSeq(acc, LAMBDA row : Len(row) # 0)

\* index % 7 === 0
\* (faulty variant: wrong modulus)
NewWeekEverySixth(index) == index % 6 = 0
\* (as written)
NewWeek(index) == index % 7 = 0

\* the reducer callback of chunkWeeks: the accumulator it returns for the
\* entry `day` at position `index` (0-based)
WeekCallback(acc, day, index, allowOverflow, startDate, endDate) ==
    LET acc1 == IF NewWeek(index) THEN Append(acc, << >>) ELSE acc
    IN  IF Included(allowOverflow, day.date, startDate, endDate)
        THEN PushLast(acc1, day) ELSE acc1

\* prevMonth !== currentMonth
\* (faulty variant: a row opened only when the month number grows)
NewMonthOnlyIfLater(prevMonth, currentMonth) == currentMonth > prevMonth
\* (as written)
NewMonth(prevMonth, currentMonth) == prevMonth # currentMonth

\* the reducer callback of chunkMonths: the accumulator it returns and the
\* value it leaves in the captured variable prevMonth
MonthCallback(acc, prevMonth, day, allowOverflow, startDate, endDate) ==
    LET currentMonth == GetMonth(day.date)
        fresh        == NewMonth(prevMonth, currentMonth)
        acc1         == IF fresh THEN Append(acc, << >>) ELSE acc
    IN  [acc       |-> IF Included(allowOverflow, day.date, startDate, endDate)
                       THEN PushLast(acc1, day) ELSE acc1,
         prevMonth |-> IF fresh THEN currentMonth ELSE prevMonth]

(***************************************************************************)
(* Inputs.                                                                 *)
(***************************************************************************)
FirstDay == DaysFromCivil(2019, 12, 18)
\* the k-th input moment: ten days apart (so every weekday occurs), at
\* 00:00, 11:00 or 22:00
InputMoment(k) == Moment((FirstDay + 10 * k) * DayLength + (k % 3) * 11)
InputDates  == { InputMoment(k) : k \in 0..MaxK }
DateLikes   == InputDates \cup {Absent, Unparseable}
Views       == {"monthly", "weekly", "yearly"}
\* the value of new Date() at the call
Now         == NewDate(2020, 0, 22) + 13
EmptyColor  == "#empty"
Palette     == << "#c1", "#c2", "#c3", "#c4", "#c5", "#c6", "#c7", "#c8" >>
Scale(n)    == SubSeq(Palette, 1, n)
\* observations: two on 2020-01-07 (00:00 and 15:00) and one at 2020-01-08
\* 00:00
Observations ==
    { [date |-> Moment(NewDate(2020, 0, 7)),         value |-> 1],
      [date |-> Moment(NewDate(2020, 0, 7) + 15),    value |-> 2],
      [date |-> Moment(NewDate(2020, 0, 8)),         value |-> 3] }
DataLists == UNION { [1..n -> Observations] : n \in 0..MaxObs }

\* every second input date
EvenDates == { InputMoment(k) : k \in { j \in 0..MaxK : j % 2 = 0 } }
\* getCalendar over every pair of date-like inputs, without observations
RangeInputs ==
    [colors : {Scale(0), Scale(3)}, data : {<< >>}, emptyColor : {EmptyColor},
     endDate : DateLikes, startDate : DateLikes, view : Views]
\* getCalendar over every observation list, on fewer ranges
DataInputs ==
    [colors : {Scale(0), Scale(3)}, data : DataLists, emptyColor : {EmptyColor},
     endDate : EvenDates \cup {Absent}, startDate : EvenDates \cup {Absent},
     view : Views]
CalendarInputs == RangeInputs \cup DataInputs
\* calendars handed to the chunkers: no data, no scale
PlainInputs ==
    [colors : {Scale(0)}, data : {<< >>}, emptyColor : {EmptyColor},
     endDate : EvenDates, startDate : EvenDates, view : {"monthly", "weekly"}]
Bounds == EvenDates \cup {Absent}

(***************************************************************************)
(* State.                                                                  *)
(***************************************************************************)
VARIABLES
    pc,         \* "ready", "calendar", "chunkWeeks", "chunkMonths", "chunked", "color"
    calArgs,    \* the arguments of the getCalendar call
    calendar,   \* what getCalendar returned: [status, days]
    chunkArgs,  \* the arguments of the chunkWeeks / chunkMonths call
    startDate,  \* the chunker's parameter startDate after normalizeDate
    endDate,    \* the chunker's parameter endDate after normalizeDate
    index,      \* number of calendar entries the reducer has visited
    acc,        \* the reducer's accumulator
    prevMonth,  \* chunkMonths' captured variable
    rows,       \* what the chunker returned
    colorArgs,  \* the arguments of a direct getColor call
    color       \* what it returned

vars == << pc, calArgs, calendar, chunkArgs, startDate, endDate, index, acc,
           prevMonth, rows, colorArgs, color >>

NoCalArgs   == [colors |-> << >>, data |-> << >>, emptyColor |-> EmptyColor,
                endDate |-> Absent, startDate |-> Absent, view |-> "none"]
NoChunkArgs == [fn |-> "none", allowOverflow |-> FALSE,
                endDate |-> Absent, startDate |-> Absent]
NoColorArgs == [colors |-> << >>, max |-> 0, value |-> 0]

Init ==
    /\ pc = "ready"
    /\ calArgs = NoCalArgs
    /\ calendar = [status |-> "none", days |-> << >>]
    /\ chunkArgs = NoChunkArgs
    /\ startDate = Absent
    /\ endDate = Absent
    /\ index = 0
    /\ acc = << >>
    /\ prevMonth = -1
    /\ rows = << >>
    /\ colorArgs = NoColorArgs
    /\ color = Null

(***************************************************************************)
(* Operations.                                                             *)
(***************************************************************************)
\* a getCalendar call with arguments a
GetCalendarCall(a) ==
    /\ calArgs' = a
    /\ calendar' = getCalendar(a.colors, a.data, a.emptyColor, a.endDate,
                               a.startDate, a.view, Now)
    /\ pc' = "calendar"
    /\ UNCHANGED << chunkArgs, startDate, endDate, index, acc, prevMonth, rows,
                    colorArgs, color >>

CallGetCalendar ==
    /\ pc = "ready"
    /\ \E a \in CalendarInputs : GetCalendarCall(a)

BuildCalendar ==
    /\ pc = "ready"
    /\ \E a \in PlainInputs : GetCalendarCall(a)

\* entry of chunkWeeks / chunkMonths: the bounds are normalized and the
\* reduce starts from [] (and returns at once on an empty calendar)
ChunkEntry(fn, allowOverflow, sd, ed) ==
    /\ chunkArgs' = [fn |-> fn, allowOverflow |-> allowOverflow,
                     endDate |-> ed, startDate |-> sd]
    /\ startDate' = normalizeDate(sd)
    /\ endDate' = normalizeDate(ed)
    /\ prevMonth' = -1
    /\ index' = 0
    /\ acc' = << >>
    /\ IF Len(calendar.days) = 0
       THEN pc' = "chunked" /\ rows' = DropEmptyRows(<< >>)
       ELSE pc' = fn /\ rows' = rows
    /\ UNCHANGED << calArgs, calendar, colorArgs, color >>

CallChunkWeeks ==
    /\ pc = "calendar"
    /\ calendar.status = "ok"
    /\ \E allowOverflow \in BOOLEAN, sd \in Bounds, ed \in Bounds :
        ChunkEntry("chunkWeeks", allowOverflow, sd, ed)

CallChunkMonths ==
    /\ pc = "calendar"
    /\ calendar.status = "ok"
    /\ \E allowOverflow \in BOOLEAN, sd \in Bounds, ed \in Bounds :
        ChunkEntry("chunkMonths", allowOverflow, sd, ed)

\* one invocation of chunkWeeks' reducer; after the last one the filtered
\* accumulator is returned
ChunkWeeksStep ==
    /\ pc = "chunkWeeks"
    /\ index < Len(calendar.days)
    /\ LET next == WeekCallback(acc, calendar.days[index + 1], index,
                                chunkArgs.allowOverflow, startDate, endDate)
       IN  /\ acc' = next
           /\ index' = index + 1
           /\ IF index + 1 = Len(calendar.days)
              THEN pc' = "chunked" /\ rows' = DropEmptyRows(next)
              ELSE pc' = pc /\ rows' = rows
    /\ UNCHANGED << calArgs, calendar, chunkArgs, startDate, endDate, prevMonth,
                    colorArgs, color >>

\* one invocation of chunkMonths' reducer
ChunkMonthsStep ==
    /\ pc = "chunkMonths"
    /\ index < Len(calendar.days)
    /\ LET next == MonthCallback(acc, prevMonth, calendar.days[index + 1],
                                 chunkArgs.allowOverflow, startDate, endDate)
       IN  /\ acc' = next.acc
           /\ prevMonth' = next.prevMonth
           /\ index' = index + 1
           /\ IF index + 1 = Len(calendar.days)
              THEN pc' = "chunked" /\ rows' = DropEmptyRows(next.acc)
              ELSE pc' = pc /\ rows' = rows
    /\ UNCHANGED << calArgs, calendar, chunkArgs, startDate, endDate,
                    colorArgs, color >>

CallGetColor ==
    /\ pc = "ready"
    /\ \E n \in 0..MaxColors, max \in 0..MaxValue, value \in 0..MaxValue :
        /\ colorArgs' = [colors |-> Scale(n), max |-> max, value |-> value]
        /\ color' = getColor(Scale(n), max, value)
    /\ pc' = "color"
    /\ UNCHANGED << calArgs, calendar, chunkArgs, startDate, endDate, index, acc,
                    prevMonth, rows >>

\* getCalendar on its own
NextCalendar == CallGetCalendar
SpecCalendar == Init /\ [][NextCalendar]_vars

\* a calendar built by getCalendar, then chunked
NextChunk ==
    \/ BuildCalendar
    \/ CallChunkWeeks
    \/ ChunkWeeksStep
    \/ CallChunkMonths
    \/ ChunkMonthsStep
SpecChunk == Init /\ [][NextChunk]_vars

\* getColor on its own
NextColor == CallGetColor
SpecColor == Init /\ [][NextColor]_vars

Next == NextCalendar \/ NextChunk \/ NextColor
Spec == Init /\ [][Next]_vars

(***************************************************************************)
(* Properties of getCalendar (checked under SpecCalendar).                 *)
(***************************************************************************)
\* the requested start / end as the function resolves it: the input, or the
\* current moment when the input is absent
Requested(x)   == IF Falsy(x) THEN Now ELSE x.t
Parseable(a)   == a.startDate # Unparseable /\ a.endDate # Unparseable
\* start <= end, as calendar days
InOrder(a)     == DayOf(Requested(a.startDate)) <= DayOf(Requested(a.endDate))
Returned       == pc = "calendar" /\ calendar.status = "ok"
Midnight(d)    == TimeInDay(d) = 0
SameMonth(d, t) == GetFullYear(d) = GetFullYear(t) /\ GetMonth(d) = GetMonth(t)
\* d is the first / last day of the month / week (Sunday to Saturday) of t
FirstOfMonthOf(d, t) == Midnight(d) /\ SameMonth(d, t) /\ GetDate(d) = 1
LastOfMonthOf(d, t)  == Midnight(d) /\ SameMonth(d, t) /\ GetDate(d + DayLength) = 1
FirstOfWeekOf(d, t)  == Midnight(d) /\ GetWeekday(d) = 0 /\ DayOf(t) - DayOf(d) \in 0..6
LastOfWeekOf(d, t)   == Midnight(d) /\ GetWeekday(d) = 6 /\ DayOf(d) - DayOf(t) \in 0..6
\* the widened range of a call, from the requested dates and the view
Widened(a) == ResolveRange(a.view, Requested(a.startDate), Requested(a.endDate))

\* C1: for start <= end and every view, getCalendar returns exactly
\* (widened end - widened start in days) + 1 entries, and the date of each
\* entry is exactly one calendar day after the date of the entry before it.
C1_DenseRange ==
    (pc = "calendar" /\ Parseable(calArgs) /\ InOrder(calArgs)) =>
        /\ calendar.status = "ok"
        /\ Len(calendar.days) =
              DayOf(Widened(calArgs).endDate) - DayOf(Widened(calArgs).startDate) + 1
        /\ \A i \in 1..(Len(calendar.days) - 1) :
              /\ DayOf(calendar.days[i + 1].date) = DayOf(calendar.days[i].date) + 1
              /\ TimeInDay(calendar.days[i + 1].date) = TimeInDay(calendar.days[i].date)

\* a monthly calendar over more than one month (it crosses the year's end)
C1_Witness ==
    /\ Returned /\ InOrder(calArgs) /\ calArgs.view = "monthly"
    /\ Len(calendar.days) = 62
    /\ GetMonth(calendar.days[31].date) = 11
    /\ GetMonth(calendar.days[32].date) = 0

\* C2: the first and last dates follow the view: monthly gives the first day
\* of the start's month and the last day of the end's month; every other view
\* gives the first day (Sunday) of the start's week and the last day
\* (Saturday) of the end's week.  A call with start <= end returns a
\* non-empty calendar.
C2_ViewBoundaries ==
    /\ (pc = "calendar" /\ Parseable(calArgs) /\ InOrder(calArgs)) =>
            (calendar.status = "ok" /\ Len(calendar.days) > 0)
    /\ (Returned /\ Len(calendar.days) > 0) =>
        LET first == calendar.days[1].date
            last  == calendar.days[Len(calendar.days)].date
            s     == Requested(calArgs.startDate)
            e     == Requested(calArgs.endDate)
        IN  IF calArgs.view = "monthly"
            THEN FirstOfMonthOf(first, s) /\ LastOfMonthOf(last, e)
            ELSE FirstOfWeekOf(first, s) /\ LastOfWeekOf(last, e)

\* a view that is neither monthly nor weekly, widened to whole weeks on
\* both sides
C2_Witness ==
    /\ Returned /\ calArgs.view = "yearly" /\ Len(calendar.days) > 7
    /\ DayOf(calendar.days[1].date) < DayOf(Requested(calArgs.startDate))
    /\ DayOf(calendar.days[Len(calendar.days)].date) > DayOf(Requested(calArgs.endDate))

RECURSIVE SumValues(_, _)
\* the sum of data[i].value over the index set I
SumValues(data, I) ==
    IF I = {} THEN 0
    ELSE LET i == CHOOSE j \in I : TRUE
         IN  data[i].value + SumValues(data, I \ {i})

\* the observations (by index) that fall on the calendar day of the Date d
OnDay(data, d) == { i \in 1..Len(data) : DayOf(data[i].date.t) = DayOf(d) }

Permuted(data, p) == [i \in 1..Len(data) |-> data[p[i]]]

\* C3: every day's value is the sum of the values of the observations on
\* that calendar day (0 when there is none), and the values are the same
\* for every permutation of the observation list.
C3_Aggregation ==
    Returned =>
        /\ \A i \in 1..Len(calendar.days) :
              calendar.days[i].value =
                  SumValues(calArgs.data, OnDay(calArgs.data, calendar.days[i].date))
        /\ \A p \in Permutations(1..Len(calArgs.data)) :
              LET start == Widened(calArgs).startDate
              IN  \A i \in 1..Len(calendar.days) :
                    getDay(Permuted(calArgs.data, p), i - 1, start, GetDate(start)).value
                        = calendar.days[i].value

\* two observations at different times of one day are summed into that
\* day's value, and the day after it, which has none, is 0
C3_Witness ==
    /\ Returned /\ Len(calArgs.data) = 2
    /\ calArgs.data[1] # calArgs.data[2]
    /\ \E i \in 1..(Len(calendar.days) - 1) :
          /\ calendar.days[i].value = 3
          /\ calendar.days[i + 1].value = 0
    /\ \E i \in 1..Len(calendar.days) : calendar.days[i].value = 0

\* the maximum of the aggregated values of the whole calendar (0 at least)
FinalMax(days) ==
    LET all == {0} \cup { days[i].value : i \in 1..Len(days) }
    IN  CHOOSE m \in all : \A v \in all : m >= v

\* C7: every day is coloured against the final maximum of the whole range:
\* its colour is getColor(colors, finalMax, value), or emptyColor when
\* getColor gives no assignment; so every colour is a scale entry or
\* emptyColor, and a day of value 0 gets emptyColor.
C7_ColorAfterMax ==
    Returned =>
        \A i \in 1..Len(calendar.days) :
            LET day == calendar.days[i]
                c   == getColor(calArgs.colors, FinalMax(calendar.days), day.value)
            IN  /\ day.color = IF c = Null THEN calArgs.emptyColor ELSE c
                /\ \/ day.color = calArgs.emptyColor
                   \/ \E j \in 1..Len(calArgs.colors) : day.color = calArgs.colors[j]
                /\ day.value = 0 => day.color = calArgs.emptyColor

\* a day below the maximum that is followed by the day holding the maximum:
\* it gets a lower bucket than the last one
C7_Witness ==
    /\ Returned /\ Len(calArgs.colors) = 3
    /\ \E i \in 1..(Len(calendar.days) - 1) :
          /\ calendar.days[i].value = 1
          /\ calendar.days[i + 1].value = 3
          /\ calendar.days[i].color = calArgs.colors[2]
          /\ calendar.days[i + 1].color = calArgs.colors[3]

\* C8: getCalendar raises nothing of its own: for every pair of parseable
\* start and end dates, in either order, and every view, it returns a
\* calendar; it fails only when normalizeDate raises on an unparseable date.
C8_NoOwnFailure ==
    /\ (pc = "calendar" /\ calArgs.startDate.kind = "date"
                        /\ calArgs.endDate.kind = "date") => calendar.status = "ok"
    /\ (pc = "calendar" /\ calendar.status # "ok") =>
            (calendar.status = "InvalidDate" /\ ~Parseable(calArgs))

(***************************************************************************)
(* Properties of chunkWeeks and chunkMonths (checked under SpecChunk).     *)
(***************************************************************************)
Chunked(fn) == pc = "chunked" /\ chunkArgs.fn = fn
Chunking(fn) == chunkArgs.fn = fn /\ pc \in {fn, "chunked"}

RECURSIVE Flatten(_)
\* the entries of the rows, read row by row
Flatten(rs) == IF Len(rs) = 0 THEN << >> ELSE Head(rs) \o Flatten(Tail(rs))

\* the date lies within [startBound, endBound] as calendar days; an absent
\* bound does not constrain its side
WithinBounds(d, a) ==
    /\ (a.startDate = Absent \/ DayOf(d) >= DayOf(a.startDate.t))
    /\ (a.endDate = Absent \/ DayOf(d) <= DayOf(a.endDate.t))

\* C5: no row returned by chunkWeeks or chunkMonths is empty, whatever the
\* calendar, the allowOverflow flag and the bounds.
C5_NoEmptyRow ==
    pc = "chunked" => \A r \in 1..Len(rows) : Len(rows[r]) > 0

\* a group lost every entry to the bounds and was dropped, others were kept
C5_Witness ==
    /\ pc = "chunked" /\ ~chunkArgs.allowOverflow
    /\ Len(rows) > 0 /\ Len(rows) < Len(acc)
    /\ \E g \in 1..Len(acc) : Len(acc[g]) = 0

\* C6: an entry of the calendar is returned iff allowOverflow holds or its
\* date lies within the bounds (inclusive; an absent bound is no bound),
\* and the returned entries, read row by row, keep the calendar's order.
C6_Filtering ==
    pc = "chunked" =>
        Flatten(rows) =
            SelectSeq(calendar.days,
                      LAMBDA day : chunkArgs.allowOverflow
                                   \/ WithinBounds(day.date, chunkArgs))

\* both bounds given, entries cut on both sides, and the days of the two
\* bounds themselves are returned
C6_Witness ==
    /\ pc = "chunked" /\ ~chunkArgs.allowOverflow
    /\ chunkArgs.startDate # Absent /\ chunkArgs.endDate # Absent
    /\ TimeInDay(chunkArgs.endDate.t) # 0
    /\ Len(rows) > 1
    /\ LET out == Flatten(rows)
       IN  /\ Len(out) < Len(calendar.days) - 1
           /\ DayOf(out[1].date) = DayOf(chunkArgs.startDate.t)
           /\ DayOf(out[Len(out)].date) = DayOf(chunkArgs.endDate.t)
           /\ calendar.days[1] # out[1]
           /\ calendar.days[Len(calendar.days)] # out[Len(out)]

\* the position (1-based) of an entry in the calendar
PositionOf(day) == CHOOSE i \in 1..Len(calendar.days) : calendar.days[i] = day
Min(a, b) == IF a < b THEN a ELSE b

\* C9 as stated: every week group holds exactly 7 consecutive entries
\* before bound filtering (with allowOverflow nothing is filtered, and the
\* groups are the rows).
C9_AlwaysSeven ==
    (Chunked("chunkWeeks") /\ chunkArgs.allowOverflow) =>
        \A r \in 1..Len(rows) : Len(rows[r]) = 7

\* C9 amended: a group is opened at every index that is a multiple of 7, by
\* position; every group but the last holds exactly 7 consecutive entries
\* before bound filtering, and the last holds the entries that remain (7
\* only if the calendar's length is a multiple of 7).
C9_GroupsOfSeven ==
    Chunking("chunkWeeks") =>
        /\ Len(acc) = (index + 6) \div 7
        /\ \A g \in 1..Len(acc) : \A j \in 1..Len(acc[g]) :
              (PositionOf(acc[g][j]) - 1) \div 7 = g - 1
        /\ chunkArgs.allowOverflow =>
              \A g \in 1..Len(acc) :
                  acc[g] = SubSeq(calendar.days, 7 * (g - 1) + 1, Min(7 * g, index))

\* a monthly calendar chunked by weeks: the last group is short
C9_Witness ==
    /\ Chunked("chunkWeeks") /\ chunkArgs.allowOverflow
    /\ calArgs.view = "monthly"
    /\ Len(rows) = 5
    /\ \A r \in 1..4 : Len(rows[r]) = 7
    /\ Len(rows[5]) = 3

\* year and month of a Date
YearMonth(d) == << GetFullYear(d), GetMonth(d) >>
\* the positions among the first n entries at which the month changes
MonthStarts(n) ==
    { k \in 1..n : k = 1 \/ YearMonth(calendar.days[k].date)
                            # YearMonth(calendar.days[k - 1].date) }

\* every row holds entries of one calendar month only, and no two rows hold
\* entries of the same calendar month
OneMonthPerRow(rs) ==
    LET filled == { r \in 1..Len(rs) : Len(rs[r]) > 0 }
    IN  /\ \A r \in filled : \A i \in 1..Len(rs[r]) :
              YearMonth(rs[r][i].date) = YearMonth(rs[r][1].date)
        /\ \A r, q \in filled :
              YearMonth(rs[r][1].date) = YearMonth(rs[q][1].date) => r = q

\* C10: chunkMonths starts a row exactly when an entry's month differs
\* from the month of the entry before it (the first entry always starts
\* one): no row holds entries of two calendar months, and no calendar
\* month has entries in two rows.
C10_MonthRows ==
    Chunking("chunkMonths") =>
        /\ Len(acc) = Cardinality(MonthStarts(index))
        /\ OneMonthPerRow(acc)
        /\ pc = "chunked" => OneMonthPerRow(rows)

\* December, January and February of a calendar across the year's end
C10_Witness ==
    /\ Chunked("chunkMonths") /\ chunkArgs.allowOverflow
    /\ Len(rows) = 3
    /\ Len(rows[1]) = 31 /\ GetMonth(rows[1][1].date) = 11
    /\ Len(rows[2]) = 31 /\ GetMonth(rows[2][1].date) = 0
    /\ Len(rows[3]) = 29 /\ GetMonth(rows[3][1].date) = 1

(***************************************************************************)
(* Properties of getColor (checked under SpecColor).                       *)
(***************************************************************************)
\* value / max >= i / n (value / 0 is +Infinity for a positive value)
AtLeast(value, max, i, n) == IF max = 0 THEN TRUE ELSE value * n >= i * max

\* C4: getColor returns null when the scale is empty or the value is 0;
\* otherwise it returns the entry at the highest index i in 0..N-1 with
\* value/max >= i/N: a scale of one colour gives that colour, and a value
\* equal to max gives the last colour.
C4_Bucket ==
    pc = "color" =>
        LET n == Len(colorArgs.colors)
            v == colorArgs.value
            m == colorArgs.max
        IN  IF n = 0 \/ v = 0
            THEN color = Null
            ELSE /\ \E i \in 0..(n - 1) :
                      /\ AtLeast(v, m, i, n)
                      /\ \A j \in (i + 1)..(n - 1) : ~AtLeast(v, m, j, n)
                      /\ color = colorArgs.colors[i + 1]
                 /\ n = 1 => color = colorArgs.colors[1]
                 /\ v = m => color = colorArgs.colors[n]

\* a value exactly on an inner boundary (value/max = i/N) takes the bucket
\* that starts there
C4_Witness ==
    /\ pc = "color" /\ Len(colorArgs.colors) = 4
    /\ colorArgs.value = 3 /\ colorArgs.max = 6
    /\ color = colorArgs.colors[3]

====
